---- MODULE Spec2Model ----
(***************************************************************************)
(* The per-connection state machine of sniproxy (src/src/connection.c):    *)
(* accept_connection, connection_cb with its helpers, free_connections.    *)
(* A step of the model is one whole reactor callback.                      *)
(***************************************************************************)
EXTENDS Integers, Sequences, FiniteSets, TLC

\* ---------------------------------------------------------------- bounds
BufSize == 2     \* capacity of each Buffer, in bytes

\* The callbacks of one connection read and write that connection's struct and
\* the links of the registry only, so the model follows the connections that
\* live, one after the other, in one slot of memory.
Slots == {1}

\* The proxy never looks at a byte it relays: two values tell bytes apart.
ByteVals == {0, 1}

\* "TCP MSS over standard Ethernet and IPv4": the size of the peek window
MSS == 1460

\* ------------------------------------------------- external collaborators
\* listeners of the configuration: one without and one with a fallback
Listeners == {"plain", "fallback"}

fallback_address(listener) == IF listener = "fallback" THEN "addr" ELSE "NULL"

\* errno values a recv/send can fail with
EAGAIN == "EAGAIN"
EWOULDBLOCK == "EAGAIN"     \* the same number as EAGAIN on Linux
EINTR == "EINTR"
Errnos == {EAGAIN, EWOULDBLOCK, EINTR, "ECONNRESET"}

\* mutant: EINTR is not among the temporary errors
IS_TEMPORARY_SOCKERR_nointr(errno) ==
    errno = EAGAIN \/ errno = EWOULDBLOCK

IS_TEMPORARY_SOCKERR(errno) ==
    errno = EAGAIN \/ errno = EWOULDBLOCK \/ errno = EINTR

\* ------------------------------------------------------------------ Buffer
new_buffer == << >>

buffer_len(buf) == Len(buf)

buffer_room(buf) == BufSize - Len(buf)

\* the bytes peek copies out; the buffer itself is not an output of peek
buffer_peek(buf, n) == SubSeq(buf, 1, IF n < Len(buf) THEN n ELSE Len(buf))

\* the buffer after recv() returned r
buffer_recv(buf, r) == IF r.ret > 0 THEN buf \o r.data ELSE buf

\* the buffer after send() returned s
buffer_send(buf, s) == IF s.ret > 0 THEN SubSeq(buf, s.ret + 1, Len(buf)) ELSE buf

\* ------------------------------------------------------- system-call results
NoIO == [ret |-> 0, errno |-> "unused", data |-> << >>]

ByteSeqs(n) == UNION {[1..k -> ByteVals] : k \in 1..n}

RecvResults(buf) ==
    {[ret |-> -1, errno |-> e, data |-> << >>] : e \in Errnos}
    \cup {[ret |-> 0, errno |-> "none", data |-> << >>]}
    \cup {[ret |-> Len(d), errno |-> "none", data |-> d] : d \in ByteSeqs(buffer_room(buf))}

SendResults(buf) ==
    {[ret |-> -1, errno |-> e, data |-> << >>] : e \in Errnos}
    \cup {[ret |-> n, errno |-> "none", data |-> << >>] : n \in 1..buffer_len(buf)}

\* parse_packet: >= 0 hostname found, -1 incomplete, -2 no hostname, < -2 malformed
ParseResults == {[called |-> TRUE, result |-> n] : n \in {1, -1, -2, -3}}

NoParse == [called |-> FALSE, result |-> 0]

\* listener_lookup_server_address: the kind of Address returned
LookupResults == {"sockaddr", "hostname"}

SocketResults == {"ok", "fail"}

ConnectResults ==
    {[ret |-> 0, errno |-> "none"], [ret |-> -1, errno |-> "EINPROGRESS"],
     [ret |-> -1, errno |-> "ECONNREFUSED"]}

NoConnect == [ret |-> 0, errno |-> "unused"]

\* ------------------------------------------------------------------ libev
calloc_watcher == [active |-> FALSE, events |-> {}, fd |-> "unset"]

ev_io_init(w, events) == [active |-> FALSE, events |-> events, fd |-> "set"]

ev_io_set(w, events) == [w EXCEPT !.events = events]

ev_io_start(w) == [w EXCEPT !.active = TRUE]

ev_io_stop(w) == [w EXCEPT !.active = FALSE]

ev_is_active(w) == w.active

\* close(fd) on the descriptor whose kernel status is sock
close(sock, fd) ==
    IF fd = "unset" THEN sock
    ELSE IF sock = "open" THEN "closed" ELSE "reclosed"

\* -------------------------------------------------------------- Connection
new_connection ==
    [state |-> "NEW",
     client |-> [watcher |-> calloc_watcher, buffer |-> new_buffer, sock |-> "none"],
     server |-> [watcher |-> calloc_watcher, buffer |-> new_buffer, sock |-> "none"],
     hostname |-> "NULL",
     listener |-> "NULL"]

client_socket_open(con) ==
    \/ con.state = "ACCEPTED"
    \/ con.state = "PARSED"
    \/ con.state = "RESOLVED"
    \/ con.state = "CONNECTED"
    \/ con.state = "SERVER_CLOSED"

server_socket_open(con) ==
    \/ con.state = "CONNECTED"
    \/ con.state = "CLIENT_CLOSED"

VARIABLES
    conns,        \* slot -> struct Connection (new_connection when unallocated)
    connections,  \* the TAILQ: sequence of slots, head first
    aborted,      \* "none", or the assertion that stopped the process
    stopping,     \* free_connections has begun
    last,         \* the last handler run: the answers the system gave to its
                  \* calls, and the struct as the handler left it (before free)
    cfg           \* the configuration file being read: the listener stanza,
                  \* the parser's place in it, its ListenerConfig, the Config

vars == <<conns, connections, aborted, stopping, last, cfg>>

\* ------------------------------------------------------------- close paths
\* The helpers below work on m = [con |-> struct Connection, failed |-> the
\* assert() that aborted the process, "none" while it runs].  After a failed
\* assert nothing more executes.

\* mutant: the next state after SERVER_CLOSED is taken from the wrong branch
close_client_socket_half(m) ==
    IF m.failed # "none" THEN m
    ELSE IF ~(m.con.state # "CLOSED" /\ m.con.state # "CLIENT_CLOSED")
    THEN [m EXCEPT !.failed = "close_client_socket"]
    ELSE [m EXCEPT
            !.con.client.watcher = ev_io_stop(m.con.client.watcher),
            !.con.client.sock = close(m.con.client.sock, m.con.client.watcher.fd),
            !.con.state = IF \/ m.con.state = "ACCEPTED"
                             \/ m.con.state = "PARSED"
                             \/ m.con.state = "RESOLVED"
                          THEN "CLOSED"
                          ELSE "CLIENT_CLOSED"]

close_client_socket(m) ==
    IF m.failed # "none" THEN m
    ELSE IF ~(m.con.state # "CLOSED" /\ m.con.state # "CLIENT_CLOSED")
    THEN [m EXCEPT !.failed = "close_client_socket"]
    ELSE [m EXCEPT
            !.con.client.watcher = ev_io_stop(m.con.client.watcher),
            !.con.client.sock = close(m.con.client.sock, m.con.client.watcher.fd),
            !.con.state = IF \/ m.con.state = "SERVER_CLOSED"
                             \/ m.con.state = "ACCEPTED"
                             \/ m.con.state = "PARSED"
                             \/ m.con.state = "RESOLVED"
                          THEN "CLOSED"
                          ELSE "CLIENT_CLOSED"]

\* mutant: the server watcher is not stopped before its socket is closed
close_server_socket_nostop(m) ==
    IF m.failed # "none" THEN m
    ELSE IF ~(m.con.state # "CLOSED" /\ m.con.state # "SERVER_CLOSED")
    THEN [m EXCEPT !.failed = "close_server_socket"]
    ELSE [m EXCEPT
            !.con.server.sock = close(m.con.server.sock, m.con.server.watcher.fd),
            !.con.state = IF m.con.state = "CLIENT_CLOSED"
                          THEN "CLOSED"
                          ELSE "SERVER_CLOSED"]

close_server_socket(m) ==
    IF m.failed # "none" THEN m
    ELSE IF ~(m.con.state # "CLOSED" /\ m.con.state # "SERVER_CLOSED")
    THEN [m EXCEPT !.failed = "close_server_socket"]
    ELSE [m EXCEPT
            !.con.server.watcher = ev_io_stop(m.con.server.watcher),
            !.con.server.sock = close(m.con.server.sock, m.con.server.watcher.fd),
            !.con.state = IF m.con.state = "CLIENT_CLOSED"
                          THEN "CLOSED"
                          ELSE "SERVER_CLOSED"]

\* mutant: the client half is closed before the server half
close_connection_swapped(m) ==
    IF m.con.state = "NEW" THEN [m EXCEPT !.failed = "close_connection_new"]
    ELSE
    LET a == IF m.con.state \in {"ACCEPTED", "PARSED", "RESOLVED", "SERVER_CLOSED"}
             THEN close_client_socket(m) ELSE m
    IN  IF a.failed # "none" THEN a
        ELSE IF a.con.state \notin {"ACCEPTED", "PARSED", "RESOLVED",
                                    "SERVER_CLOSED", "CLOSED"}
        THEN [a EXCEPT !.failed = "close_connection_mid"]
        ELSE
        LET b == IF a.con.state \in {"CONNECTED", "CLIENT_CLOSED"}
                 THEN close_server_socket(a) ELSE a
        IN  IF b.failed # "none" THEN b
            ELSE IF b.con.state # "CLOSED"
            THEN [b EXCEPT !.failed = "close_connection_end"]
            ELSE b

close_connection(m) ==
    IF m.con.state = "NEW" THEN [m EXCEPT !.failed = "close_connection_new"]
    ELSE
    LET a == IF m.con.state = "CONNECTED" \/ m.con.state = "CLIENT_CLOSED"
             THEN close_server_socket(m) ELSE m
    IN  IF a.failed # "none" THEN a
        ELSE IF ~(a.con.state \in {"ACCEPTED", "PARSED", "RESOLVED", "SERVER_CLOSED", "CLOSED"})
        THEN [a EXCEPT !.failed = "close_connection_mid"]
        ELSE
        LET b == IF a.con.state \in {"ACCEPTED", "PARSED", "RESOLVED", "SERVER_CLOSED"}
                 THEN close_client_socket(a) ELSE a
        IN  IF b.failed # "none" THEN b
            ELSE IF b.con.state # "CLOSED"
            THEN [b EXCEPT !.failed = "close_connection_end"]
            ELSE b

\* ---------------------------------------------------------- state handlers
\* mutant: an incomplete request (-1) does not return, it goes on to PARSED
parse_client_request_noreturn(m, result) ==
    LET con == m.con
        hostname == IF result >= 0 THEN "host" ELSE "NULL"
    IN  IF result = -2 /\ fallback_address(con.listener) = "NULL"
        THEN close_client_socket(m)
        ELSE IF result < -2 /\ fallback_address(con.listener) = "NULL"
        THEN close_client_socket(m)
        ELSE [m EXCEPT !.con.hostname = hostname, !.con.state = "PARSED"]

\* mutant: a malformed request (< -2) is not checked for the missing fallback
parse_client_request_nocheck(m, result) ==
    LET con == m.con
        hostname == IF result >= 0 THEN "host" ELSE "NULL"
    IN  IF result = -1 THEN m
        ELSE IF result = -2 /\ fallback_address(con.listener) = "NULL"
        THEN close_client_socket(m)
        ELSE [m EXCEPT !.con.hostname = hostname, !.con.state = "PARSED"]

\* mutant: a request without hostname (-2) closes the client also when the
\* listener has a fallback address
parse_client_request_nofallback(m, result) ==
    LET con == m.con
        hostname == IF result >= 0 THEN "host" ELSE "NULL"
    IN  IF result = -1 THEN m
        ELSE IF result = -2
        THEN close_client_socket(m)
        ELSE IF result < -2 /\ fallback_address(con.listener) = "NULL"
        THEN close_client_socket(m)
        ELSE [m EXCEPT !.con.hostname = hostname, !.con.state = "PARSED"]

parse_client_request(m, result) ==
    LET con == m.con
        len == Len(buffer_peek(con.client.buffer, MSS))
        hostname == IF result >= 0 THEN "host" ELSE "NULL"
    IN  IF result = -1 THEN m
        ELSE IF result = -2 /\ fallback_address(con.listener) = "NULL"
        THEN close_client_socket(m)
        ELSE IF result < -2 /\ fallback_address(con.listener) = "NULL"
        THEN close_client_socket(m)
        ELSE [m EXCEPT !.con.hostname = hostname, !.con.state = "PARSED"]

\* mutant: the return after closing the client on a hostname address is missing
resolve_server_address_noreturn(m, server_address) ==
    IF server_address = "hostname"
    THEN LET a == close_client_socket(m)
         IN  IF a.failed # "none" THEN a ELSE [a EXCEPT !.con.state = "RESOLVED"]
    ELSE IF server_address # "sockaddr"
    THEN [m EXCEPT !.failed = "resolve_server_address"]
    ELSE [m EXCEPT !.con.state = "RESOLVED"]

resolve_server_address(m, server_address) ==
    IF server_address = "hostname" THEN close_client_socket(m)
    ELSE IF server_address # "sockaddr"
    THEN [m EXCEPT !.failed = "resolve_server_address"]
    ELSE [m EXCEPT !.con.state = "RESOLVED"]

\* mutant: the socket of a connect() that failed is not closed
initiate_server_connect_leak(m, sockfd, result) ==
    IF sockfd = "fail" THEN m
    ELSE IF result.ret < 0 /\ result.errno # "EINPROGRESS"
    THEN [m EXCEPT !.con.server.sock = "open",
                   !.con.state = "SERVER_CLOSED"]
    ELSE [m EXCEPT !.con.server.sock = "open",
                   !.con.server.watcher =
                        ev_io_start(ev_io_init(m.con.server.watcher, {"WRITE"})),
                   !.con.state = "CONNECTED"]

\* mutant: the server watcher is set up and started before connect()'s result
\* is looked at
initiate_server_connect_started(m, sockfd, result) ==
    IF sockfd = "fail" THEN m
    ELSE IF result.ret < 0 /\ result.errno # "EINPROGRESS"
    THEN [m EXCEPT !.con.server.sock = "closed",
                   !.con.server.watcher =
                        ev_io_start(ev_io_init(m.con.server.watcher, {"WRITE"})),
                   !.con.state = "SERVER_CLOSED"]
    ELSE [m EXCEPT !.con.server.sock = "open",
                   !.con.server.watcher =
                        ev_io_start(ev_io_init(m.con.server.watcher, {"WRITE"})),
                   !.con.state = "CONNECTED"]

initiate_server_connect(m, sockfd, result) ==
    IF sockfd = "fail" THEN m
    ELSE IF result.ret < 0 /\ result.errno # "EINPROGRESS"
    THEN [m EXCEPT !.con.server.sock = close("open", "set"),
                   !.con.state = "SERVER_CLOSED"]
    ELSE [m EXCEPT !.con.server.sock = "open",
                   !.con.server.watcher =
                        ev_io_start(ev_io_init(m.con.server.watcher, {"WRITE"})),
                   !.con.state = "CONNECTED"]

\* mutant: an active watcher keeps the events it has when others are wanted
reactivate_watcher_noset(w, input_buffer, output_buffer) ==
    LET events == (IF buffer_room(input_buffer) > 0 THEN {"READ"} ELSE {})
                  \cup (IF buffer_len(output_buffer) > 0 THEN {"WRITE"} ELSE {})
    IN  IF ev_is_active(w)
        THEN IF events = {} THEN ev_io_stop(w) ELSE w
        ELSE IF events # {}
             THEN ev_io_start(ev_io_set(w, events))
             ELSE w

\* mutant: an active watcher is not stopped when no event is wanted
reactivate_watcher_nostop(w, input_buffer, output_buffer) ==
    LET events == (IF buffer_room(input_buffer) > 0 THEN {"READ"} ELSE {})
                  \cup (IF buffer_len(output_buffer) > 0 THEN {"WRITE"} ELSE {})
    IN  IF ev_is_active(w)
        THEN IF events = {} THEN w
             ELSE IF events # w.events
                  THEN ev_io_start(ev_io_set(ev_io_stop(w), events))
                  ELSE w
        ELSE IF events # {}
             THEN ev_io_start(ev_io_set(w, events))
             ELSE w

\* mutant: a stopped watcher is not started again
reactivate_watcher_norestart(w, input_buffer, output_buffer) ==
    LET events == (IF buffer_room(input_buffer) > 0 THEN {"READ"} ELSE {})
                  \cup (IF buffer_len(output_buffer) > 0 THEN {"WRITE"} ELSE {})
    IN  IF ev_is_active(w)
        THEN IF events = {} THEN ev_io_stop(w)
             ELSE IF events # w.events
                  THEN ev_io_start(ev_io_set(ev_io_stop(w), events))
                  ELSE w
        ELSE w

\* mutant: pending output does not ask for EV_WRITE
reactivate_watcher_readonly(w, input_buffer, output_buffer) ==
    LET events == IF buffer_room(input_buffer) > 0 THEN {"READ"} ELSE {}
    IN  IF ev_is_active(w)
        THEN IF events = {} THEN ev_io_stop(w)
             ELSE IF events # w.events
                  THEN ev_io_start(ev_io_set(ev_io_stop(w), events))
                  ELSE w
        ELSE IF events # {}
             THEN ev_io_start(ev_io_set(w, events))
             ELSE w

reactivate_watcher(w, input_buffer, output_buffer) ==
    LET events == (IF buffer_room(input_buffer) > 0 THEN {"READ"} ELSE {})
                  \cup (IF buffer_len(output_buffer) > 0 THEN {"WRITE"} ELSE {})
    IN  IF ev_is_active(w)
        THEN IF events = {} THEN ev_io_stop(w)
             ELSE IF events # w.events
                  THEN ev_io_start(ev_io_set(ev_io_stop(w), events))
                  ELSE w
        ELSE IF events # {}
             THEN ev_io_start(ev_io_set(w, events))
             ELSE w

\* ------------------------------------------------------------ connection_cb
input_buffer(con, is_client) ==
    IF is_client THEN con.client.buffer ELSE con.server.buffer

\* mutant: the output buffer is the watcher's own buffer
output_buffer_own(con, is_client) ==
    IF is_client THEN con.client.buffer ELSE con.server.buffer

output_buffer(con, is_client) ==
    IF is_client THEN con.server.buffer ELSE con.client.buffer

close_socket(m, is_client) ==
    IF is_client THEN close_client_socket(m) ELSE close_server_socket(m)

set_input_buffer(m, is_client, buf) ==
    IF is_client THEN [m EXCEPT !.con.client.buffer = buf]
    ELSE [m EXCEPT !.con.server.buffer = buf]

set_output_buffer(m, is_client, buf) ==
    IF is_client THEN [m EXCEPT !.con.server.buffer = buf]
    ELSE [m EXCEPT !.con.client.buffer = buf]

\* "Receive first in case the socket was closed"; m carries revents
recv_called(m, is_client) ==
    "READ" \in m.revents /\ buffer_room(input_buffer(m.con, is_client)) > 0

\* mutant: a recv of 0 bytes (the peer closed) is not handled
cb_receive_noeof(m, is_client, r) ==
    IF ~recv_called(m, is_client) THEN m
    ELSE
    LET a == set_input_buffer(m, is_client,
                              buffer_recv(input_buffer(m.con, is_client), r))
    IN  IF r.ret < 0 /\ ~IS_TEMPORARY_SOCKERR(r.errno)
        THEN [close_socket(a, is_client) EXCEPT !.revents = {}]
        ELSE a

\* mutant: revents is not cleared after the socket was closed on a recv error
cb_receive_keeprevents(m, is_client, r) ==
    IF ~recv_called(m, is_client) THEN m
    ELSE
    LET a == set_input_buffer(m, is_client,
                              buffer_recv(input_buffer(m.con, is_client), r))
    IN  IF r.ret < 0 /\ ~IS_TEMPORARY_SOCKERR(r.errno)
        THEN close_socket(a, is_client)
        ELSE IF r.ret = 0
        THEN [close_socket(a, is_client) EXCEPT !.revents = {}]
        ELSE a

cb_receive(m, is_client, r) ==
    IF ~recv_called(m, is_client) THEN m
    ELSE
    LET a == set_input_buffer(m, is_client,
                              buffer_recv(input_buffer(m.con, is_client), r))
    IN  IF r.ret < 0 /\ ~IS_TEMPORARY_SOCKERR(r.errno)
        THEN [close_socket(a, is_client) EXCEPT !.revents = {}]
        ELSE IF r.ret = 0
        THEN [close_socket(a, is_client) EXCEPT !.revents = {}]
        ELSE a

\* "Transmit"
send_called(m, is_client) ==
    "WRITE" \in m.revents /\ buffer_len(output_buffer(m.con, is_client)) > 0

cb_transmit(m, is_client, s) ==
    IF ~send_called(m, is_client) THEN m
    ELSE
    LET a == set_output_buffer(m, is_client,
                               buffer_send(output_buffer(m.con, is_client), s))
    IN  IF s.ret < 0 /\ ~IS_TEMPORARY_SOCKERR(s.errno)
        THEN close_socket(a, is_client)
        ELSE a

\* "Handle any state specific logic"
parse_called(m, is_client) ==
    m.failed = "none" /\ is_client /\ m.con.state = "ACCEPTED"

cb_parse(m, is_client, result) ==
    IF parse_called(m, is_client) THEN parse_client_request(m, result) ELSE m

resolve_called(m, is_client) ==
    m.failed = "none" /\ is_client /\ m.con.state = "PARSED"

cb_resolve(m, is_client, server_address) ==
    IF resolve_called(m, is_client) THEN resolve_server_address(m, server_address) ELSE m

connect_called(m, is_client) ==
    m.failed = "none" /\ is_client /\ m.con.state = "RESOLVED"

cb_connect(m, is_client, sockfd, result) ==
    IF connect_called(m, is_client) THEN initiate_server_connect(m, sockfd, result) ELSE m

\* mutant: the server socket is not closed when the client buffer is flushed
cb_flush_client_only(m) ==
    IF m.con.state = "SERVER_CLOSED" /\ buffer_len(m.con.server.buffer) = 0
    THEN close_client_socket(m) ELSE m

\* mutant: the client socket is not closed when the server buffer is flushed
cb_flush_server_only(m) ==
    IF m.con.state = "CLIENT_CLOSED" /\ buffer_len(m.con.client.buffer) = 0
    THEN close_server_socket(m) ELSE m

\* "Close other socket if we have flushed corresponding buffer"
cb_flush(m) ==
    LET a == IF m.con.state = "SERVER_CLOSED" /\ buffer_len(m.con.server.buffer) = 0
             THEN close_client_socket(m) ELSE m
    IN  IF a.con.state = "CLIENT_CLOSED" /\ buffer_len(a.con.client.buffer) = 0
        THEN close_server_socket(a) ELSE a

\* "Reactivate watchers" and the three assertions that follow
cb_reactivate(m) ==
    IF m.failed # "none" \/ m.con.state = "CLOSED" THEN m
    ELSE
    LET con == m.con
        client_watcher ==
            IF client_socket_open(con)
            THEN reactivate_watcher(con.client.watcher, con.client.buffer, con.server.buffer)
            ELSE con.client.watcher
        server_watcher ==
            IF server_socket_open(con)
            THEN reactivate_watcher(con.server.watcher, con.server.buffer, con.client.buffer)
            ELSE con.server.watcher
        a == [m EXCEPT !.con.client.watcher = client_watcher,
                       !.con.server.watcher = server_watcher]
    IN  IF ~(client_socket_open(con) \/ ~ev_is_active(client_watcher))
        THEN [a EXCEPT !.failed = "client_watcher_active"]
        ELSE IF ~(server_socket_open(con) \/ ~ev_is_active(server_watcher))
        THEN [a EXCEPT !.failed = "server_watcher_active"]
        ELSE IF ~(\/ ev_is_active(client_watcher) /\ client_watcher.events # {}
                  \/ ev_is_active(server_watcher) /\ server_watcher.events # {})
        THEN [a EXCEPT !.failed = "no_watcher_active"]
        ELSE a

\* the answers the system can give to the calls connection_cb makes; a call
\* that is not made has the one answer "unused"
RecvInputs(m, is_client) ==
    IF recv_called(m, is_client)
    THEN RecvResults(input_buffer(m.con, is_client)) ELSE {NoIO}

SendInputs(m, is_client) ==
    IF send_called(m, is_client)
    THEN SendResults(output_buffer(m.con, is_client)) ELSE {NoIO}

ParseInputs(m, is_client) ==
    IF parse_called(m, is_client) THEN ParseResults ELSE {NoParse}

LookupInputs(m, is_client) ==
    IF resolve_called(m, is_client) THEN LookupResults ELSE {"unused"}

SocketInputs(m, is_client) ==
    IF connect_called(m, is_client) THEN SocketResults ELSE {"unused"}

ConnectInputs(m, is_client, sockfd) ==
    IF connect_called(m, is_client) /\ sockfd = "ok" THEN ConnectResults ELSE {NoConnect}

\* --------------------------------------------------------------- registry
RECURSIVE Remove(_, _)
Remove(q, c) ==
    IF q = << >> THEN << >>
    ELSE IF Head(q) = c THEN Tail(q)
    ELSE <<Head(q)>> \o Remove(Tail(q), c)

TAILQ_REMOVE(q, c) == Remove(q, c)

\* mutant: the element is linked in at the tail
TAILQ_INSERT_TAIL(q, c) == q \o <<c>>

TAILQ_INSERT_HEAD(q, c) == <<c>> \o q

InRegistry(c) == \E i \in 1..Len(connections) : connections[i] = c

ConIds == DOMAIN conns

\* free_connection: the buffers, the hostname and the struct are released; an
\* unallocated slot always reads as a struct new_connection() would return
free_connection(con) == new_connection

NoLast ==
    [op |-> "none", con |-> 0, is_client |-> FALSE,
     recv |-> NoIO, send |-> NoIO, parse |-> NoParse, lookup |-> "unused",
     socket |-> "unused", connect |-> NoConnect,
     final |-> new_connection, freed |-> FALSE]

\* ------------------------------------------------ configuration: listener
\* A string is the sequence of its character codes, a char * is NULL or points
\* to a string. strdup and malloc are used unchecked by the parser: they are
\* taken to return memory.
NULL == [null |-> TRUE, s |-> << >>]

strdup(s) == [null |-> FALSE, s |-> s]

tolower(ch) == IF ch >= 65 /\ ch <= 90 THEN ch + 32 ELSE ch

isdigit(ch) == ch >= 48 /\ ch <= 57

\* the character at index i of a C string, the terminating 0 behind its end
CharAt(s, i) == IF i <= Len(s) THEN s[i] ELSE 0

RECURSIVE strcasecmp_from(_, _, _)
strcasecmp_from(s1, s2, i) ==
    LET c1 == tolower(CharAt(s1, i))
        c2 == tolower(CharAt(s2, i))
    IN  IF c1 # c2 THEN c1 - c2
        ELSE IF c1 = 0 THEN 0
        ELSE strcasecmp_from(s1, s2, i + 1)

strcasecmp(s1, s2) == strcasecmp_from(s1, s2, 1)

RECURSIVE atoi_from(_, _, _)
atoi_from(s, i, acc) ==
    IF i <= Len(s) /\ isdigit(s[i])
    THEN atoi_from(s, i + 1, acc * 10 + (s[i] - 48))
    ELSE acc

atoi(s) == atoi_from(s, 1, 0)

isnumeric(s) == s # << >> /\ \A i \in DOMAIN s : isdigit(s[i])

\* "http"
HttpName == <<104, 116, 116, 112>>

begin_listener ==
    [address |-> NULL, port |-> NULL, table_name |-> NULL, protocol |-> NULL]

accept_listener_arg(listener, arg) ==
    IF listener.address = NULL
    THEN IF isnumeric(arg)
         THEN [lc |-> [listener EXCEPT !.port = strdup(arg)], ret |-> 1]
         ELSE [lc |-> [listener EXCEPT !.address = strdup(arg)], ret |-> 1]
    ELSE IF listener.port = NULL /\ isnumeric(arg)
         THEN [lc |-> [listener EXCEPT !.port = strdup(arg)], ret |-> 1]
         ELSE [lc |-> listener, ret |-> 0 - 1]

accept_listener_table_name(listener, table_name) ==
    IF listener.table_name = NULL
    THEN [lc |-> [listener EXCEPT !.table_name = strdup(table_name)], ret |-> 1]
    ELSE [lc |-> listener, ret |-> 1]

\* mutant: a later protocol directive takes the place of the earlier one
accept_listener_protocol_replace(listener, protocol) ==
    [lc |-> [listener EXCEPT !.protocol = strdup(protocol)], ret |-> 1]

accept_listener_protocol(listener, protocol) ==
    IF listener.protocol = NULL
    THEN [lc |-> [listener EXCEPT !.protocol = strdup(protocol)], ret |-> 1]
    ELSE [lc |-> listener, ret |-> 1]

\* end_listener: the struct Listener built from the ListenerConfig, put at the
\* head of the Config's list; address and port are what parse_address is given
end_listener(config, lc) ==
    LET listener ==
            [table_name |-> lc.table_name,
             protocol |-> IF lc.protocol # NULL /\ strcasecmp(lc.protocol.s, HttpName) = 0
                          THEN "HTTP" ELSE "TLS",
             address |-> lc.address,
             port |-> IF lc.port # NULL THEN atoi(lc.port.s) ELSE 0]
    IN  [config |-> <<listener>> \o config, ret |-> 1]

\* no file is being read
NoCfg == [args |-> << >>, body |-> << >>, phase |-> "none", nargs |-> 0, pos |-> 0,
          lc |-> begin_listener, listeners |-> << >>]

\* ----------------------------------------------------------------- actions
Init ==
    /\ conns = [c \in Slots |-> new_connection]
    /\ connections = << >>
    /\ aborted = "none"
    /\ stopping = FALSE
    /\ last = NoLast
    /\ cfg = NoCfg

Running == aborted = "none" /\ ~stopping

FreeSlots == {c \in ConIds : ~InRegistry(c)}

\* mutant: the struct is linked into the registry before accept() is called
accept_connection_early(listener, alloc, sockfd) ==
    /\ Running
    /\ FreeSlots # {}
    /\ LET c == CHOOSE x \in FreeSlots : \A y \in FreeSlots : x <= y
           con == new_connection
           accepted ==
               [con EXCEPT
                  !.client.sock = "open",
                  !.client.watcher = ev_io_start(ev_io_init(con.client.watcher, {"READ"})),
                  !.state = "ACCEPTED",
                  !.listener = listener]
       IN  IF alloc = "fail"
           THEN /\ last' = [NoLast EXCEPT !.op = "accept_nomem"]
                /\ UNCHANGED <<conns, connections>>
           ELSE IF sockfd = "fail"
           THEN /\ last' = [NoLast EXCEPT !.op = "accept_failed", !.con = c,
                                          !.final = con, !.freed = TRUE]
                /\ conns' = [conns EXCEPT ![c] = free_connection(con)]
                /\ connections' = TAILQ_INSERT_HEAD(connections, c)
           ELSE /\ conns' = [conns EXCEPT ![c] = accepted]
                /\ connections' = TAILQ_INSERT_HEAD(connections, c)
                /\ last' = [NoLast EXCEPT !.op = "accept", !.con = c, !.final = accepted]
    /\ UNCHANGED <<aborted, stopping, cfg>>

\* accept_connection(listener): alloc and sockfd are the results of
\* new_connection() and accept()
accept_connection(listener, alloc, sockfd) ==
    /\ Running
    /\ FreeSlots # {}
    /\ LET c == CHOOSE x \in FreeSlots : \A y \in FreeSlots : x <= y
           con == new_connection
           accepted ==
               [con EXCEPT
                  !.client.sock = "open",
                  !.client.watcher = ev_io_start(ev_io_init(con.client.watcher, {"READ"})),
                  !.state = "ACCEPTED",
                  !.listener = listener]
       IN  IF alloc = "fail"
           THEN /\ last' = [NoLast EXCEPT !.op = "accept_nomem"]
                /\ UNCHANGED <<conns, connections>>
           ELSE IF sockfd = "fail"
           THEN /\ last' = [NoLast EXCEPT !.op = "accept_failed", !.con = c,
                                          !.final = con, !.freed = TRUE]
                /\ conns' = [conns EXCEPT ![c] = free_connection(con)]
                /\ UNCHANGED connections
           ELSE /\ conns' = [conns EXCEPT ![c] = accepted]
                /\ connections' = TAILQ_INSERT_HEAD(connections, c)
                /\ last' = [NoLast EXCEPT !.op = "accept", !.con = c, !.final = accepted]
    /\ UNCHANGED <<aborted, stopping, cfg>>

\* connection_cb: one dispatch by the reactor on the client or the server
\* watcher of connection c; libev reports only events the watcher asked for
connection_cb(c, is_client) ==
    /\ Running
    /\ LET con == conns[c]
           w == IF is_client THEN con.client.watcher ELSE con.server.watcher
       IN
       /\ ev_is_active(w)
       /\ \E revents \in (SUBSET w.events) \ {{}} :
          LET m0 == [con |-> con, failed |-> "none", revents |-> revents] IN
          \E r \in RecvInputs(m0, is_client) :
          \E m1 \in {cb_receive(m0, is_client, r)} :
          \E s \in SendInputs(m1, is_client) :
          \E m2 \in {cb_transmit(m1, is_client, s)} :
          \E p \in ParseInputs(m2, is_client) :
          \E m3 \in {cb_parse(m2, is_client, p.result)} :
          \E a \in LookupInputs(m3, is_client) :
          \E m4 \in {cb_resolve(m3, is_client, a)} :
          \E k \in SocketInputs(m4, is_client) :
          \E cn \in ConnectInputs(m4, is_client, k) :
          \E m \in {cb_reactivate(cb_flush(cb_connect(m4, is_client, k, cn)))} :
          LET closed == m.failed = "none" /\ m.con.state = "CLOSED"
          IN  /\ aborted' = m.failed
              /\ conns' = [conns EXCEPT ![c] =
                             IF closed THEN free_connection(m.con) ELSE m.con]
              /\ connections' =
                     IF closed THEN TAILQ_REMOVE(connections, c)
                     ELSE IF m.failed # "none" THEN connections
                     ELSE TAILQ_INSERT_HEAD(TAILQ_REMOVE(connections, c), c)
              /\ last' = [op |-> "connection_cb", con |-> c, is_client |-> is_client,
                          recv |-> r, send |-> s, parse |-> p,
                          lookup |-> a, socket |-> k, connect |-> cn, final |-> m.con, freed |-> closed]
    /\ UNCHANGED <<stopping, cfg>>

\* free_connections, one iteration of its loop per step
free_connections ==
    /\ aborted = "none"
    /\ ~stopping \/ connections # << >>
    /\ stopping' = TRUE
    /\ UNCHANGED cfg
    /\ IF connections = << >>
       THEN /\ last' = [NoLast EXCEPT !.op = "free_connections"]
            /\ UNCHANGED <<conns, connections, aborted>>
       ELSE LET iter == Head(connections)
                m == close_connection([con |-> conns[iter], failed |-> "none"])
            IN  /\ connections' = TAILQ_REMOVE(connections, iter)
                /\ aborted' = m.failed
                /\ conns' = [conns EXCEPT ![iter] =
                               IF m.failed = "none" THEN free_connection(m.con) ELSE m.con]
                /\ last' = [NoLast EXCEPT !.op = "free_connections", !.con = iter,
                                          !.final = m.con, !.freed = (m.failed = "none")]

Next ==
    \/ \E listener \in Listeners, alloc \in {"ok", "fail"}, sockfd \in {"ok", "fail"} :
          accept_connection(listener, alloc, sockfd)
    \/ \E c \in ConIds, is_client \in BOOLEAN : connection_cb(c, is_client)
    \/ free_connections

Spec == Init /\ [][Next]_vars

\* ------------------------------------------- several connections at a time
\* A callback works on its own struct Connection and on the links of the
\* registry only, so what the registry does is studied with connections that
\* carry little or no payload.

\* three connections whose peers send no payload: a recv returns 0 or fails
RegSlots == {1, 2, 3}

InitReg ==
    /\ conns = [c \in RegSlots |-> new_connection]
    /\ connections = << >>
    /\ aborted = "none"
    /\ stopping = FALSE
    /\ last = NoLast
    /\ cfg = NoCfg

RegEnv == last.recv.ret <= 0

NextReg ==
    \/ \E listener \in Listeners, alloc \in {"ok", "fail"}, sockfd \in {"ok", "fail"} :
          accept_connection(listener, alloc, sockfd)
    \/ \E c \in ConIds, is_client \in BOOLEAN : connection_cb(c, is_client) /\ RegEnv'
    \/ free_connections

SpecReg == InitReg /\ [][NextReg]_vars

\* two connections, the first with payload (of bytes 0, the code never looks
\* at a byte), the second without
StopSlots == {1, 2}

InitStop ==
    /\ conns = [c \in StopSlots |-> new_connection]
    /\ connections = << >>
    /\ aborted = "none"
    /\ stopping = FALSE
    /\ last = NoLast
    /\ cfg = NoCfg

StopEnv ==
    /\ last.recv.ret > 0 => last.con = 1
    /\ \A i \in DOMAIN last.recv.data : last.recv.data[i] = 0

NextStop ==
    \/ \E listener \in Listeners, alloc \in {"ok", "fail"}, sockfd \in {"ok", "fail"} :
          accept_connection(listener, alloc, sockfd)
    \/ \E c \in ConIds, is_client \in BOOLEAN : connection_cb(c, is_client) /\ StopEnv'
    \/ free_connections

SpecStop == InitStop /\ [][NextStop]_vars

\* ------------------------------------------------- a peer that takes bytes
\* One connection at a time, payload of bytes 0. The socket that is left open
\* of a half closed connection becomes writable again and again, and a send on
\* it then sends a byte at least or fails for good; free_connections is a loop
\* that runs to its end once it is called.
HalfClosed(con) == con.state = "SERVER_CLOSED" \/ con.state = "CLIENT_CLOSED"

DrainEnv == \A i \in DOMAIN last.recv.data : last.recv.data[i] = 0

Drain(c) ==
    /\ HalfClosed(conns[c])
    /\ \E is_client \in BOOLEAN : connection_cb(c, is_client)
    /\ last'.send.ret > 0 \/ (last'.send.ret < 0 /\ ~IS_TEMPORARY_SOCKERR(last'.send.errno))
    /\ DrainEnv'

NextDrain ==
    \/ \E listener \in Listeners, alloc \in {"ok", "fail"}, sockfd \in {"ok", "fail"} :
          accept_connection(listener, alloc, sockfd)
    \/ \E c \in ConIds, is_client \in BOOLEAN : connection_cb(c, is_client) /\ DrainEnv'
    \/ free_connections

SpecDrain ==
    /\ Init /\ [][NextDrain]_vars
    /\ \A c \in Slots : WF_vars(Drain(c))
    /\ WF_vars(free_connections)

\* ------------------------------------------- reading one listener stanza
\* parse_config walks global_grammar: at the keyword "listener" it calls
\* begin_listener, hands each argument to accept_listener_arg, each directive
\* of the block to the handler listener_stanza_grammar names for its keyword,
\* and the finished ListenerConfig to end_listener; a handler that returns a
\* value <= 0 ends the parse with an error.
MaxArgs == 2

MaxDirectives == 3

\* "::" and "80"
ArgValues == {<<58, 58>>, <<56, 48>>}

\* "http", "HtTp", "tls", "htt" and "https"
ProtocolValues == {HttpName, <<72, 116, 84, 112>>, <<116, 108, 115>>,
                   <<104, 116, 116>>, <<104, 116, 116, 112, 115>>}

\* "a" and "b"
TableValues == {<<97>>, <<98>>}

Directives ==
    [keyword : {"protocol"}, value : ProtocolValues]
        \cup [keyword : {"table"}, value : TableValues]

InitCfg ==
    /\ conns = [c \in Slots |-> new_connection]
    /\ connections = << >>
    /\ aborted = "none"
    /\ stopping = FALSE
    /\ last = NoLast
    /\ \E args \in UNION {[1..k -> ArgValues] : k \in 0..MaxArgs} :
       \E body \in UNION {[1..k -> Directives] : k \in 0..MaxDirectives} :
          cfg = [NoCfg EXCEPT !.args = args, !.body = body, !.phase = "start"]

listener_begin(alloc) ==
    /\ cfg.phase = "start"
    /\ cfg' = IF alloc = "ok"
              THEN [cfg EXCEPT !.phase = "open", !.lc = begin_listener]
              ELSE [cfg EXCEPT !.phase = "error"]
    /\ UNCHANGED <<conns, connections, aborted, stopping, last>>

listener_arg ==
    /\ cfg.phase = "open"
    /\ cfg.nargs < Len(cfg.args)
    /\ LET r == accept_listener_arg(cfg.lc, cfg.args[cfg.nargs + 1])
       IN  cfg' = [cfg EXCEPT !.nargs = @ + 1, !.lc = r.lc,
                              !.phase = IF r.ret <= 0 THEN "error" ELSE @]
    /\ UNCHANGED <<conns, connections, aborted, stopping, last>>

listener_keyword ==
    /\ cfg.phase = "open"
    /\ cfg.nargs = Len(cfg.args)
    /\ cfg.pos < Len(cfg.body)
    /\ LET d == cfg.body[cfg.pos + 1]
           r == IF d.keyword = "protocol"
                THEN accept_listener_protocol(cfg.lc, d.value)
                ELSE accept_listener_table_name(cfg.lc, d.value)
       IN  cfg' = [cfg EXCEPT !.pos = @ + 1, !.lc = r.lc,
                              !.phase = IF r.ret <= 0 THEN "error" ELSE @]
    /\ UNCHANGED <<conns, connections, aborted, stopping, last>>

listener_end ==
    /\ cfg.phase = "open"
    /\ cfg.nargs = Len(cfg.args)
    /\ cfg.pos = Len(cfg.body)
    /\ LET r == end_listener(cfg.listeners, cfg.lc)
       IN  cfg' = [cfg EXCEPT !.listeners = r.config,
                              !.phase = IF r.ret <= 0 THEN "error" ELSE "done"]
    /\ UNCHANGED <<conns, connections, aborted, stopping, last>>

NextCfg ==
    \/ \E alloc \in {"ok", "fail"} : listener_begin(alloc)
    \/ listener_arg
    \/ listener_keyword
    \/ listener_end

SpecCfg == InitCfg /\ [][NextCfg]_vars

TypeOK ==
    /\ aborted \in {"none", "close_client_socket", "close_server_socket",
                    "close_connection_new", "close_connection_mid",
                    "close_connection_end", "resolve_server_address",
                    "client_watcher_active", "server_watcher_active",
                    "no_watcher_active"}
    /\ stopping \in BOOLEAN
    /\ \A c \in ConIds : Len(conns[c].client.buffer) <= BufSize
                         /\ Len(conns[c].server.buffer) <= BufSize

\* =================================================================== claims
\* Every struct Connection there is when a handler has returned: the slots, and
\* the struct the last handler finished with (a destroyed one included).
Cons == {conns[c] : c \in ConIds} \cup {last.final}

Temporary == {"EAGAIN", "EWOULDBLOCK", "EINTR"}

\* recv returned 0, or failed with an error that is not temporary
EofOrFatal(r) ==
    \/ r.ret = 0 /\ r.errno = "none"
    \/ r.ret < 0 /\ r.errno \notin Temporary

\* send failed with an error that is not temporary
SendFatal(s) == s.ret < 0 /\ s.errno \notin Temporary

\* ---------------------------------------------------------------------- C1
SocketsMatchState(con) ==
    /\ (con.client.sock = "open") <=>
           con.state \in {"ACCEPTED", "PARSED", "RESOLVED", "CONNECTED", "SERVER_CLOSED"}
    /\ (con.server.sock = "open") <=> con.state \in {"CONNECTED", "CLIENT_CLOSED"}

\* C1: whenever a handler has returned (accept_connection, connection_cb, an
\* iteration of free_connections), for every connection the client socket is
\* open exactly in ACCEPTED, PARSED, RESOLVED, CONNECTED, SERVER_CLOSED and the
\* server socket is open exactly in CONNECTED, CLIENT_CLOSED; also after a
\* connect() that failed at once.
C1_SocketsMatchState == \A con \in Cons : SocketsMatchState(con)

\* a connect() that failed at once: the backend socket was created and closed
\* without ever being given to the server watcher
C1_Witness ==
    /\ last.op = "connection_cb"
    /\ last.connect.errno = "ECONNREFUSED"
    /\ last.final.server.sock = "closed"
    /\ last.final.server.watcher.fd = "unset"
    /\ last.final.client.sock = "closed"

\* ---------------------------------------------------------------------- C2
WatcherArmed(w) == ev_is_active(w) /\ w.events # {}

\* C2: every registered connection that is not CLOSED has, once connection_cb
\* is through with it, a watcher that is active with a non-empty event mask.
C2_SomeWatcherActive ==
    \A c \in ConIds :
        InRegistry(c) /\ conns[c].state # "CLOSED" =>
            \/ WatcherArmed(conns[c].client.watcher)
            \/ WatcherArmed(conns[c].server.watcher)

\* ---------------------------------------------------------------------- C3
ClosedHalfIdle(con) ==
    /\ con.client.sock # "open" => ~ev_is_active(con.client.watcher)
    /\ con.server.sock # "open" => ~ev_is_active(con.server.watcher)

\* C3: a half whose socket is closed or was never opened has no active
\* watcher, and a connection that free_connection destroys has no active
\* watcher at all.
C3_ClosedHalfInactive ==
    /\ \A con \in Cons : ClosedHalfIdle(con)
    /\ last.freed => /\ ~ev_is_active(last.final.client.watcher)
                     /\ ~ev_is_active(last.final.server.watcher)

\* connection_cb destroys a connection both of whose watchers had been started
C3_Witness ==
    /\ last.op = "connection_cb"
    /\ last.freed
    /\ last.final.client.watcher.fd = "set"
    /\ last.final.server.watcher.fd = "set"
    /\ last.final.server.watcher.events # {}

\* ---------------------------------------------------------------------- C4
\* the single state changes the claim allows
StateChange(s) ==
    CASE s = "NEW" -> {"ACCEPTED"}
      [] s = "ACCEPTED" -> {"PARSED", "SERVER_CLOSED", "CLIENT_CLOSED", "CLOSED"}
      [] s = "PARSED" -> {"RESOLVED", "SERVER_CLOSED", "CLIENT_CLOSED", "CLOSED"}
      [] s = "RESOLVED" -> {"CONNECTED", "SERVER_CLOSED", "CLIENT_CLOSED", "CLOSED"}
      [] s = "CONNECTED" -> {"SERVER_CLOSED", "CLIENT_CLOSED"}
      [] s = "SERVER_CLOSED" -> {"CLOSED"}
      [] s = "CLIENT_CLOSED" -> {"CLOSED"}
      [] OTHER -> {}

RECURSIVE StatesAfter(_, _)
StatesAfter(S, n) ==
    IF n = 0 THEN S
    ELSE StatesAfter(S \cup UNION {StateChange(s) : s \in S}, n - 1)

\* the states a chain of allowed changes leads to from s (a chain has at most
\* 5 changes: NEW, ACCEPTED, PARSED, RESOLVED, CONNECTED, half closed, CLOSED
\* is the longest and one handler never covers all of it)
Forward(s) == StatesAfter({s}, 6)

\* the state the handler of this step left the struct of slot c in
StateLeft(c) ==
    IF last'.con = c THEN last'.final.state ELSE conns'[c].state

\* C4: what one handler does to the state of a connection is a chain of allowed
\* changes: forward on ACCEPTED, PARSED, RESOLVED, CONNECTED, or to a half
\* closed state and on to CLOSED; never back, never out of CLOSED, never
\* between SERVER_CLOSED and CLIENT_CLOSED.
C4_StateForward ==
    [][\A c \in ConIds : StateLeft(c) \in Forward(conns[c].state)]_vars

\* a connection that was CONNECTED and has been half closed and then closed
C4_Witness ==
    /\ last.op = "connection_cb"
    /\ last.final.state = "CLOSED"
    /\ last.final.server.sock = "closed"
    /\ last.final.server.watcher.fd = "set"
    /\ last.final.hostname = "host"

\* ---------------------------------------------------------------------- C5
\* C5: in CONNECTED a client recv of 0 or with a fatal error closes the client
\* socket and gives CLIENT_CLOSED; in CLIENT_CLOSED the server socket stays
\* open while the client buffer holds bytes and the server side sees no EOF
\* and no fatal error; the callback that leaves the client buffer empty closes
\* the server socket and gives CLOSED.
C5_ClientHalfClose ==
    [][\A c \in ConIds :
        last'.op = "connection_cb" /\ last'.con = c =>
          LET before == conns[c]
              after == last'.final
              drained == after.state = "CLOSED" /\ after.server.sock = "closed"
              waiting == after.state = "CLIENT_CLOSED" /\ after.server.sock = "open"
          IN  /\ before.state = "CONNECTED" /\ last'.is_client /\ EofOrFatal(last'.recv) =>
                    /\ after.client.sock = "closed"
                    /\ IF after.client.buffer = << >> THEN drained ELSE waiting
              /\ before.state = "CLIENT_CLOSED" =>
                    /\ after.client.sock = "closed"
                    /\ IF after.client.buffer = << >> THEN drained
                       ELSE IF EofOrFatal(last'.recv) \/ SendFatal(last'.send) THEN TRUE
                       ELSE waiting
    ]_vars

\* the client hung up while bytes of its were still to be sent to the server
C5_Witness ==
    /\ last.op = "connection_cb"
    /\ last.is_client
    /\ last.recv.ret = 0 /\ last.recv.errno = "none"
    /\ last.final.state = "CLIENT_CLOSED"
    /\ last.final.client.buffer # << >>
    /\ last.final.server.sock = "open"

\* ---------------------------------------------------------------------- C6
\* C6: in CONNECTED a server recv of 0 or with a fatal error closes the server
\* socket and gives SERVER_CLOSED; in SERVER_CLOSED the client socket stays
\* open while the server buffer holds bytes and the client side sees no EOF
\* and no fatal error; the callback that leaves the server buffer empty closes
\* the client socket and gives CLOSED.
C6_ServerHalfClose ==
    [][\A c \in ConIds :
        last'.op = "connection_cb" /\ last'.con = c =>
          LET before == conns[c]
              after == last'.final
              drained == after.state = "CLOSED" /\ after.client.sock = "closed"
              waiting == after.state = "SERVER_CLOSED" /\ after.client.sock = "open"
          IN  /\ before.state = "CONNECTED" /\ ~last'.is_client /\ EofOrFatal(last'.recv) =>
                    /\ after.server.sock = "closed"
                    /\ IF after.server.buffer = << >> THEN drained ELSE waiting
              /\ before.state = "SERVER_CLOSED" =>
                    /\ after.server.sock = "closed"
                    /\ IF after.server.buffer = << >> THEN drained
                       ELSE IF EofOrFatal(last'.recv) \/ SendFatal(last'.send) THEN TRUE
                       ELSE waiting
    ]_vars

\* the server hung up while bytes of its were still to be sent to the client
C6_Witness ==
    /\ last.op = "connection_cb"
    /\ ~last.is_client
    /\ last.recv.ret = 0 /\ last.recv.errno = "none"
    /\ last.final.state = "SERVER_CLOSED"
    /\ last.final.server.buffer # << >>
    /\ last.final.client.sock = "open"

\* ---------------------------------------------------------------------- C7
\* C7: when the parser answers -1 for a connection in ACCEPTED, the callback
\* leaves it in ACCEPTED with the client socket open, no hostname, no server
\* socket, and in the client buffer the bytes that were there when the parser
\* was called (those of before the callback and those its recv added).
C7_IncompleteKeepsRequest ==
    [][\A c \in ConIds :
        /\ last'.op = "connection_cb" /\ last'.con = c
        /\ conns[c].state = "ACCEPTED"
        /\ last'.parse.called /\ last'.parse.result = -1
        => /\ last'.final.state = "ACCEPTED"
           /\ last'.final.client.sock = "open"
           /\ last'.final.hostname = "NULL"
           /\ last'.final.server.sock = "none"
           /\ last'.final.server.watcher.fd = "unset"
           /\ last'.final.client.buffer = conns[c].client.buffer \o last'.recv.data
           /\ ~last'.freed
    ]_vars

\* an incomplete request waits in the buffer of a connection that goes on
C7_Witness ==
    /\ last.op = "connection_cb"
    /\ last.parse.called /\ last.parse.result = -1
    /\ last.recv.ret > 0
    /\ aborted = "none"
    /\ InRegistry(last.con)
    /\ conns[last.con].state = "ACCEPTED"
    /\ conns[last.con].client.buffer # << >>
    /\ WatcherArmed(conns[last.con].client.watcher)

\* ---------------------------------------------------------------------- C8
\* C8: when the parser answers -2 or less for a connection of a listener with
\* no fallback address, the callback closes the client socket, takes the
\* connection from ACCEPTED to CLOSED, removes it from the registry and
\* destroys it, and no server socket was created.
C8_ParseFailureCloses ==
    [][\A c \in ConIds :
        /\ last'.op = "connection_cb" /\ last'.con = c
        /\ conns[c].state = "ACCEPTED"
        /\ last'.parse.called /\ last'.parse.result <= -2
        /\ conns[c].listener = "plain"
        => /\ last'.final.state = "CLOSED"
           /\ last'.final.client.sock = "closed"
           /\ last'.final.server.sock = "none"
           /\ last'.final.server.watcher.fd = "unset"
           /\ last'.lookup = "unused" /\ last'.socket = "unused"
           /\ last'.freed
           /\ ~InRegistry(c)'
           /\ conns'[c] = new_connection
    ]_vars

\* a malformed request on the listener without fallback ended the connection
C8_Witness ==
    /\ last.op = "connection_cb"
    /\ last.parse.called /\ last.parse.result = -3
    /\ last.final.listener = "plain"
    /\ last.freed
    /\ connections = << >>

\* ---------------------------------------------------------------------- C9
\* the state a callback ends in that has looked up the route
AfterLookup(l) ==
    IF l.lookup = "hostname" THEN "CLOSED"
    ELSE IF l.socket = "fail" THEN "RESOLVED"
    ELSE IF l.connect.ret < 0 /\ l.connect.errno # "EINPROGRESS" THEN "CLOSED"
    ELSE "CONNECTED"

\* C9: when the parser answers -2 or less for a connection of a listener that
\* has a fallback address, the callback does not close the connection for it:
\* it looks up the route and connects in the same pass, and ends in the state
\* it ends in after a successful parse with the same answers.
C9_FallbackProceeds ==
    [][\A c \in ConIds :
        /\ last'.op = "connection_cb" /\ last'.con = c
        /\ conns[c].state = "ACCEPTED"
        /\ last'.parse.called
        /\ \/ last'.parse.result <= -2 /\ conns[c].listener = "fallback"
           \/ last'.parse.result >= 0
        => /\ last'.lookup \in LookupResults
           /\ last'.lookup = "sockaddr" => last'.socket \in SocketResults
           /\ last'.final.state = AfterLookup(last')
    ]_vars

\* a request without hostname on the listener with fallback got its backend
C9_Witness ==
    /\ last.op = "connection_cb"
    /\ last.parse.called /\ last.parse.result = -2
    /\ last.final.listener = "fallback"
    /\ last.final.state = "CONNECTED"
    /\ last.final.server.sock = "open"

\* --------------------------------------------------------------------- C10
\* C10: for every registered connection, whenever a handler has returned, the
\* hostname is set exactly when the state is PARSED, RESOLVED, CONNECTED,
\* SERVER_CLOSED or CLIENT_CLOSED.
C10_HostnameIffParsed ==
    \A c \in ConIds :
        InRegistry(c) =>
            (conns[c].hostname # "NULL" <=>
                conns[c].state \in {"PARSED", "RESOLVED", "CONNECTED",
                                    "SERVER_CLOSED", "CLIENT_CLOSED"})

\* --------------------------------------------------------------------- C11
\* C11: when the route lookup of a PARSED connection answers with a hostname
\* address, the callback closes the client socket, ends in CLOSED, removes the
\* connection from the registry and destroys it; the connection was never
\* RESOLVED or CONNECTED and no server socket was created.
C11_HostnameRouteCloses ==
    [][\A c \in ConIds :
        /\ last'.op = "connection_cb" /\ last'.con = c
        /\ last'.lookup = "hostname"
        => /\ last'.final.state = "CLOSED"
           /\ last'.final.client.sock = "closed"
           /\ ~ev_is_active(last'.final.client.watcher)
           /\ last'.final.server.sock = "none"
           /\ last'.final.server.watcher.fd = "unset"
           /\ last'.socket = "unused" /\ last'.connect = NoConnect
           /\ conns[c].state = "ACCEPTED"
           /\ last'.freed
           /\ ~InRegistry(c)'
           /\ conns'[c] = new_connection
    ]_vars

\* the route of a request with a hostname was a hostname address
C11_Witness ==
    /\ last.op = "connection_cb"
    /\ last.lookup = "hostname"
    /\ last.parse.called /\ last.parse.result = 1
    /\ last.final.hostname = "host"
    /\ last.freed

\* --------------------------------------------------------------------- C12
ConnectFailed(cn) == cn.ret < 0 /\ cn.errno \notin {"EINPROGRESS", "unused"}

\* C12: when connect() fails at once with an error other than EINPROGRESS, the
\* callback closes the new socket, never starts the server watcher, closes the
\* client socket (the server buffer is empty), ends in CLOSED and destroys the
\* connection; no byte went to the client.
C12_ConnectFailureCloses ==
    [][\A c \in ConIds :
        /\ last'.op = "connection_cb" /\ last'.con = c
        /\ ConnectFailed(last'.connect)
        => /\ last'.final.server.sock = "closed"
           /\ last'.final.server.watcher = calloc_watcher
           /\ last'.final.server.buffer = << >>
           /\ conns[c].server.buffer = << >>
           /\ ~send_called([con |-> conns[c], failed |-> "none", revents |-> {"WRITE"}],
                           TRUE)
           /\ last'.send = NoIO
           /\ last'.final.client.sock = "closed"
           /\ last'.final.state = "CLOSED"
           /\ last'.freed
           /\ ~InRegistry(c)'
    ]_vars

\* the backend refused a connection whose client had sent its request
C12_Witness ==
    /\ last.op = "connection_cb"
    /\ last.connect.ret < 0 /\ last.connect.errno = "ECONNREFUSED"
    /\ last.final.client.buffer # << >>
    /\ last.freed

\* --------------------------------------------------------------------- C13
\* a failure on the way to CONNECTED: the parser failed and the listener has no
\* fallback, the route is a hostname, socket() failed, connect() failed at once
FailedBeforeConnected(before, l) ==
    \/ l.parse.called /\ l.parse.result <= -2 /\ fallback_address(before.listener) = "NULL"
    \/ l.lookup = "hostname"
    \/ l.socket = "fail"
    \/ ConnectFailed(l.connect)

\* C13: a callback in which a failure happens before the connection is
\* CONNECTED leaves the connection CLOSED with none of its sockets open.
C13_EarlyFailureCloses ==
    [][\A c \in ConIds :
        /\ last'.op = "connection_cb" /\ last'.con = c
        /\ FailedBeforeConnected(conns[c], last')
        => /\ last'.final.state = "CLOSED"
           /\ last'.final.client.sock # "open"
           /\ last'.final.server.sock # "open"
    ]_vars

\* --------------------------------------------------------------------- C14
\* the events a watcher is registered for with the reactor
Interest(w) == IF ev_is_active(w) THEN w.events ELSE {}

\* the events wanted for a half: READ while its inbound buffer has room, WRITE
\* while its outbound buffer (the other half's) holds bytes
Wanted(inbound, outbound) ==
    (IF Len(inbound) < BufSize THEN {"READ"} ELSE {})
    \cup (IF Len(outbound) > 0 THEN {"WRITE"} ELSE {})

\* C14: after a connection_cb that leaves the connection alive, each half whose
\* socket is open is registered for exactly READ iff its inbound buffer has
\* room plus WRITE iff the other buffer holds bytes, and its watcher is active
\* iff that set is not empty; whichever watcher the callback was for.
C14_InterestMatchesBuffers ==
    last.op = "connection_cb" /\ ~last.freed =>
        LET con == conns[last.con] IN
        /\ con.client.sock = "open" =>
              /\ Interest(con.client.watcher) = Wanted(con.client.buffer, con.server.buffer)
              /\ ev_is_active(con.client.watcher) <=>
                     Wanted(con.client.buffer, con.server.buffer) # {}
        /\ con.server.sock = "open" =>
              /\ Interest(con.server.watcher) = Wanted(con.server.buffer, con.client.buffer)
              /\ ev_is_active(con.server.watcher) <=>
                     Wanted(con.server.buffer, con.client.buffer) # {}

\* a callback on the server watcher filled the client's side: the client
\* watcher was changed to READ and WRITE
C14_Witness ==
    /\ last.op = "connection_cb" /\ ~last.is_client
    /\ aborted = "none"
    /\ conns[last.con].state = "CONNECTED"
    /\ Interest(conns[last.con].client.watcher) = {"READ", "WRITE"}
    /\ Interest(conns[last.con].server.watcher) = {"READ"}
    /\ last.recv.ret > 0

\* --------------------------------------------------------------------- C15
\* C15 as stated: at the return of every handler the client watcher is active
\* exactly when the state says the client socket is open, and the server
\* watcher exactly when the state says the server socket is open.
C15_WatcherIffOpen ==
    aborted = "none" =>
        \A c \in ConIds : InRegistry(c) =>
            /\ ev_is_active(conns[c].client.watcher) <=> client_socket_open(conns[c])
            /\ ev_is_active(conns[c].server.watcher) <=> server_socket_open(conns[c])

\* C15 amended: at the return of every handler the client watcher is active
\* exactly when the state says the client socket is open and an event is
\* wanted for it (its inbound buffer has room or its outbound buffer holds
\* bytes), and the same for the server watcher.
C15_WatcherIffOpenAndWanted ==
    \A c \in ConIds : InRegistry(c) =>
        LET con == conns[c] IN
        /\ ev_is_active(con.client.watcher) <=>
              /\ client_socket_open(con)
              /\ Wanted(con.client.buffer, con.server.buffer) # {}
        /\ ev_is_active(con.server.watcher) <=>
              /\ server_socket_open(con)
              /\ Wanted(con.server.buffer, con.client.buffer) # {}

\* an open server half with a full inbound buffer and nothing to send has its
\* watcher stopped while the connection goes on
C15_Witness ==
    /\ last.op = "connection_cb"
    /\ aborted = "none"
    /\ InRegistry(last.con)
    /\ conns[last.con].state = "CONNECTED"
    /\ conns[last.con].server.sock = "open"
    /\ Len(conns[last.con].server.buffer) = BufSize
    /\ conns[last.con].client.buffer = << >>
    /\ ~ev_is_active(conns[last.con].server.watcher)

\* --------------------------------------------------------------------- C18
\* C18: no socket of a connection is closed twice: close_client_socket is never
\* entered in CLOSED or CLIENT_CLOSED, close_server_socket never in CLOSED or
\* SERVER_CLOSED, and a connection that is CLOSED has its client socket closed
\* once and its server socket, if one was created, closed once.
C18_ClosedExactlyOnce ==
    /\ aborted \notin {"close_client_socket", "close_server_socket"}
    /\ \A con \in Cons :
          /\ con.client.sock # "reclosed"
          /\ con.server.sock # "reclosed"
          /\ con.state = "CLOSED" =>
                /\ con.client.sock = "closed"
                /\ con.server.sock \in {"none", "closed"}

\* a fatal recv error on the server half ended a connection whose client had
\* hung up before, with bytes of the client still unsent
C18_Witness ==
    /\ last.op = "connection_cb" /\ ~last.is_client
    /\ last.recv.ret < 0 /\ last.recv.errno \notin Temporary
    /\ last.final.state = "CLOSED"
    /\ last.final.client.buffer # << >>
    /\ last.final.client.sock = "closed"
    /\ last.final.server.sock = "closed"

\* --------------------------------------------------------------------- C19
TempFailed(io) == io.ret < 0 /\ io.errno \in Temporary

\* a callback whose recv or send failed with a temporary error and that did
\* nothing else: no other recv or send, no route, no connect, and no parse
\* other than one of an incomplete request
OnlyTemporary(l) ==
    /\ TempFailed(l.recv) \/ TempFailed(l.send)
    /\ l.recv = NoIO \/ TempFailed(l.recv)
    /\ l.send = NoIO \/ TempFailed(l.send)
    /\ ~l.parse.called \/ l.parse.result = -1
    /\ l.lookup = "unused" /\ l.socket = "unused"

\* C19: a recv that fails with EAGAIN, EWOULDBLOCK or EINTR leaves the buffer it
\* reads into as it was, a send that fails so leaves the buffer it sends from
\* as it was; a callback that did nothing but fail so leaves the state, both
\* sockets and both buffers as they were and keeps the watcher registered for
\* the event of the failed call.
C19_TemporaryErrorKeeps ==
    [][\A c \in ConIds :
        last'.op = "connection_cb" /\ last'.con = c =>
          LET before == conns[c]
              after == last'.final
              w == IF last'.is_client THEN after.client.watcher ELSE after.server.watcher
          IN  /\ TempFailed(last'.recv) =>
                    input_buffer(after, last'.is_client) = input_buffer(before, last'.is_client)
              /\ TempFailed(last'.send) =>
                    output_buffer(after, last'.is_client) = output_buffer(before, last'.is_client)
              /\ OnlyTemporary(last') =>
                    /\ after.state = before.state
                    /\ after.client.sock = before.client.sock
                    /\ after.server.sock = before.server.sock
                    /\ after.client.buffer = before.client.buffer
                    /\ after.server.buffer = before.server.buffer
                    /\ ~last'.freed /\ aborted' = "none"
                    /\ TempFailed(last'.recv) => "READ" \in Interest(w)
                    /\ TempFailed(last'.send) => "WRITE" \in Interest(w)
    ]_vars

\* a recv interrupted by a signal and a send that would block, in one callback
\* of a connection that relays
C19_Witness ==
    /\ last.op = "connection_cb"
    /\ last.recv.ret < 0 /\ last.recv.errno = "EINTR"
    /\ last.send.ret < 0 /\ last.send.errno = "EAGAIN"
    /\ InRegistry(last.con)
    /\ conns[last.con].state = "CONNECTED"

\* --------------------------------------------------------------------- C16
\* C16: whenever a handler has returned, the registry holds exactly the structs
\* in use, once each, none of them NEW or CLOSED; a struct whose accept()
\* failed was never linked in, and a connection that connection_cb left CLOSED
\* has been unlinked and destroyed.
C16_RegistryHoldsLive ==
    /\ \A c \in ConIds : InRegistry(c) <=> conns[c].state \notin {"NEW", "CLOSED"}
    /\ \A c \in ConIds : conns[c].state # "CLOSED"
    /\ \A i, j \in 1..Len(connections) : connections[i] = connections[j] => i = j
    /\ last.op = "accept" => InRegistry(last.con) /\ last.final.state = "ACCEPTED"
    /\ last.op = "accept_failed" => ~InRegistry(last.con) /\ last.final.state = "NEW"
    /\ last.op = "connection_cb" /\ last.final.state = "CLOSED" =>
           last.freed /\ ~InRegistry(last.con)

\* one of three connections was closed by its callback, the other two stay
C16_Witness ==
    /\ last.op = "connection_cb"
    /\ last.freed
    /\ Len(connections) = 2
    /\ conns[last.con] = new_connection

\* --------------------------------------------------------------------- C17
\* C17: an iteration of the loop of free_connections takes the head off the
\* registry and leaves that connection CLOSED with both sockets closed and both
\* watchers stopped, without a failed assertion, and destroys it; so the loop
\* shortens the registry by one each time round and, the registry empty, has
\* left no struct in use.
C17_FreeConnectionsClosesAll ==
    [][/\ last'.op = "free_connections" /\ connections # << >> =>
            /\ last'.con = Head(connections)
            /\ connections' = Tail(connections)
            /\ aborted' = "none"
            /\ last'.final.state = "CLOSED"
            /\ last'.final.client.sock = "closed"
            /\ last'.final.server.sock \in {"none", "closed"}
            /\ conns[last'.con].server.sock = "open" => last'.final.server.sock = "closed"
            /\ ~ev_is_active(last'.final.client.watcher)
            /\ ~ev_is_active(last'.final.server.watcher)
            /\ last'.freed
            /\ conns'[last'.con] = new_connection
       /\ stopping' => aborted' = "none"
       /\ stopping' /\ connections' = << >> => \A c \in ConIds : conns'[c] = new_connection
      ]_vars

\* the loop has closed a connection that was relaying, with bytes of the client
\* still unsent, and has one more connection to close
C17_Witness ==
    /\ stopping
    /\ last.op = "free_connections"
    /\ last.final.server.sock = "closed"
    /\ last.final.server.watcher.fd = "set"
    /\ last.final.client.buffer # << >>
    /\ Len(connections) = 1

\* --------------------------------------------------------------------- C20
\* the registry without the connection c, in its order
Others(q, c) == SelectSeq(q, LAMBDA x : x # c)

\* C20: accept_connection puts the new connection at the head of the registry;
\* a connection_cb that leaves its connection alive leaves it at the head; a
\* connection_cb that destroys its connection takes it out; each of them keeps
\* the order of all other connections.
C20_RegistryOrder ==
    [][/\ last'.op = "accept" =>
            connections' = <<last'.con>> \o connections
       /\ last'.op = "connection_cb" /\ ~last'.freed /\ aborted' = "none" =>
            /\ Head(connections') = last'.con
            /\ connections' = <<last'.con>> \o Others(connections, last'.con)
       /\ last'.op = "connection_cb" /\ last'.freed =>
            connections' = Others(connections, last'.con)
    ]_vars

\* the connection accepted first was at the tail and has been serviced
C20_Witness ==
    /\ last.op = "connection_cb"
    /\ last.con = 1
    /\ connections = <<1, 3, 2>>

\* --------------------------------------------------------------------- C21
\* C21: the buffers of a new connection are empty, and a callback leaves in the
\* buffer it receives into the bytes that were there followed by the bytes its
\* recv read, and in the buffer it sends from the bytes that were there less
\* the first ones, as many as its send sent; the parser takes nothing out. So
\* at all times the bytes received from a socket are those sent to the other
\* socket followed by those in the buffer.
C21_BytesConserved ==
    [][\A c \in ConIds :
        /\ last'.op = "accept" /\ last'.con = c =>
              conns'[c].client.buffer = << >> /\ conns'[c].server.buffer = << >>
        /\ last'.op = "connection_cb" /\ last'.con = c =>
              LET inb == input_buffer(conns[c], last'.is_client)
                  outb == output_buffer(conns[c], last'.is_client)
                  n == IF last'.send.ret > 0 THEN last'.send.ret ELSE 0
              IN  /\ input_buffer(last'.final, last'.is_client) = inb \o last'.recv.data
                  /\ n <= Len(outb)
                  /\ output_buffer(last'.final, last'.is_client) = SubSeq(outb, n + 1, Len(outb))
                  /\ ~last'.freed =>
                        /\ conns'[c].client.buffer = last'.final.client.buffer
                        /\ conns'[c].server.buffer = last'.final.server.buffer
        /\ last'.con # c =>
              /\ conns'[c].client.buffer = conns[c].client.buffer
              /\ conns'[c].server.buffer = conns[c].server.buffer
    ]_vars

\* a callback on the server watcher has sent the first byte of the client's
\* request, which holds another one, and has read a byte of the answer
C21_Witness ==
    /\ last.op = "connection_cb" /\ ~last.is_client
    /\ last.send.ret = 1
    /\ last.recv.ret = 1
    /\ last.final.client.buffer # << >>
    /\ last.final.server.buffer = last.recv.data
    /\ last.final.hostname = "host"

\* --------------------------------------------------------------------- C23
\* the half a callback sends the bytes of: the other one than the watcher's
PausedSock(con, is_client) == IF is_client THEN con.server.sock ELSE con.client.sock

PausedWatcher(con, is_client) == IF is_client THEN con.server.watcher ELSE con.client.watcher

\* C23: a callback makes no recv into a full buffer; a half whose inbound
\* buffer is full is not registered for READ; and when a callback on the other
\* watcher sends bytes out of a full buffer, the half that fills that buffer,
\* if its socket is still open, is registered for READ when the callback is
\* through.
C23_Backpressure ==
    [][/\ \A c \in ConIds :
            last'.op = "connection_cb" /\ last'.con = c =>
              /\ Len(input_buffer(conns[c], last'.is_client)) = BufSize => last'.recv = NoIO
              /\ /\ last'.send.ret > 0
                 /\ Len(output_buffer(conns[c], last'.is_client)) = BufSize
                 /\ PausedSock(last'.final, last'.is_client) = "open"
                 => "READ" \in Interest(PausedWatcher(last'.final, last'.is_client))
       /\ \A c \in ConIds :
            /\ Len(conns'[c].client.buffer) = BufSize =>
                   "READ" \notin Interest(conns'[c].client.watcher)
            /\ Len(conns'[c].server.buffer) = BufSize =>
                   "READ" \notin Interest(conns'[c].server.watcher)
    ]_vars

\* the server had filled its buffer and was not read from; a callback on the
\* client watcher has sent all of it and the server is read from again
C23_Witness ==
    /\ last.op = "connection_cb" /\ last.is_client
    /\ last.send.ret = BufSize
    /\ InRegistry(last.con)
    /\ conns[last.con].state = "CONNECTED"
    /\ conns[last.con].client.buffer = << >>
    /\ Interest(conns[last.con].server.watcher) = {"READ"}

\* --------------------------------------------------------------------- C24
\* C24: when connection_cb has returned, a connection in SERVER_CLOSED has
\* bytes in its server buffer, one in CLIENT_CLOSED has bytes in its client
\* buffer, and none is in PARSED.
C24_HalfClosedHasBytes ==
    \A c \in ConIds : InRegistry(c) =>
        /\ conns[c].state = "SERVER_CLOSED" => conns[c].server.buffer # << >>
        /\ conns[c].state = "CLIENT_CLOSED" => conns[c].client.buffer # << >>
        /\ conns[c].state # "PARSED"

\* the client is being sent the last bytes of a server that has hung up
C24_Witness ==
    /\ last.op = "connection_cb" /\ last.is_client
    /\ last.send.ret = 1
    /\ InRegistry(last.con)
    /\ conns[last.con].state = "SERVER_CLOSED"
    /\ Len(conns[last.con].server.buffer) = 1

Given(kw, n) == {j \in 1..n : cfg.body[j].keyword = kw}

\* the value of the first of them, NULL when there is none
FirstGiven(kw, n) ==
    IF Given(kw, n) = {} THEN NULL
    ELSE strdup(cfg.body[CHOOSE j \in Given(kw, n) : \A k \in Given(kw, n) : j <= k].value)

\* h or H, t or T, t or T, p or P and nothing else
IsHttp(v) ==
    /\ Len(v) = 4
    /\ v[1] \in {104, 72} /\ v[2] \in {116, 84}
    /\ v[3] \in {116, 84} /\ v[4] \in {112, 80}

\* C22: a listener stanza yields protocol HTTP exactly when the first protocol
\* value given in it is "http" in any case, and TLS otherwise (no protocol
\* directive, or another value); while the stanza is read and when it is
\* finished, protocol and table name are the first values given: a second
\* protocol or table directive does not replace them.
C22_FirstProtocolWins ==
    /\ cfg.phase = "open" =>
          /\ cfg.lc.protocol = FirstGiven("protocol", cfg.pos)
          /\ cfg.lc.table_name = FirstGiven("table", cfg.pos)
    /\ cfg.phase = "done" =>
          LET listener == Head(cfg.listeners)
              first == FirstGiven("protocol", Len(cfg.body))
          IN  /\ Len(cfg.listeners) = 1
              /\ listener.protocol \in {"HTTP", "TLS"}
              /\ listener.protocol = "HTTP" <=> (first # NULL /\ IsHttp(first.s))
              /\ listener.table_name = FirstGiven("table", Len(cfg.body))

\* a finished stanza whose first protocol value is "HtTp", with a second
\* protocol directive "tls" and a table directive behind it: HTTP
C22_Witness ==
    /\ cfg.phase = "done"
    /\ Len(cfg.body) = 3
    /\ cfg.body[1] = [keyword |-> "protocol", value |-> <<72, 116, 84, 112>>]
    /\ cfg.body[2] = [keyword |-> "protocol", value |-> <<116, 108, 115>>]
    /\ cfg.body[3].keyword = "table"
    /\ Head(cfg.listeners).protocol = "HTTP"

====
